---- MODULE Spec2Model ----
(***************************************************************************)
(* The /ask pipeline of main.py: greeting short-circuit, read of the       *)
(* conversation history file, context window, backend call, rewrite of    *)
(* the history file and of the ask log.  Every worker process of the ASGI  *)
(* server is one event loop; the handler has no await, so a worker runs    *)
(* one request at a time, and workers interleave at the granularity of     *)
(* their file operations and backend calls.                                *)
(*                                                                         *)
(* Texts are sequences of strings: a question is a sequence of its         *)
(* characters (lower/strip/rstrip work on them), every other text is a     *)
(* one-element sequence holding the text as an opaque token.               *)
(***************************************************************************)
EXTENDS Naturals, Sequences, FiniteSets, TLC

\* ---------------------------------------------------------------- bounds
NumWorkers == 2
MaxRequests == 2
MaxHistory == 12

\* ------------------------------------------------------------- str methods
\* str.lower() on the letters that occur in the inputs and the tables.
UpperToLower ==
  << <<"A","a">>, <<"B","b">>, <<"C","c">>, <<"D","d">>, <<"E","e">>, <<"F","f">>,
     <<"G","g">>, <<"H","h">>, <<"I","i">>, <<"J","j">>, <<"K","k">>, <<"L","l">>,
     <<"M","m">>, <<"N","n">>, <<"O","o">>, <<"P","p">>, <<"Q","q">>, <<"R","r">>,
     <<"S","s">>, <<"T","t">>, <<"U","u">>, <<"V","v">>, <<"W","w">>, <<"X","x">>,
     <<"Y","y">>, <<"Z","z">>, <<"À","à">>, <<"É","é">>, <<"Ô","ô">> >>

lower_char(c) ==
  IF \E i \in 1..Len(UpperToLower) : UpperToLower[i][1] = c
  THEN UpperToLower[CHOOSE i \in 1..Len(UpperToLower) : UpperToLower[i][1] = c][2]
  ELSE c

lower(s) == [i \in 1..Len(s) |-> lower_char(s[i])]

\* The characters str.strip() removes when called without argument.
Whitespace == {" ", "\t", "\n", "\r"}

RECURSIVE rstrip(_, _)
rstrip(s, chars) ==
  IF s # <<>> /\ s[Len(s)] \in chars
  THEN rstrip(SubSeq(s, 1, Len(s) - 1), chars)
  ELSE s

RECURSIVE lstrip(_, _)
lstrip(s, chars) ==
  IF s # <<>> /\ s[1] \in chars
  THEN lstrip(SubSeq(s, 2, Len(s)), chars)
  ELSE s

strip(s) == rstrip(lstrip(s, Whitespace), Whitespace)

\* query.question.lower().strip().rstrip(".,;!?")
question_lower(question) ==
  rstrip(strip(lower(question)), {".", ",", ";", "!", "?"})

\* ---------------------------------------------------------- greeting tables
\* Each table is the dict literal of the source, as <<key, reply>> pairs.
greetings_fr ==
  <<
    <<<<"m","e","r","c","i">>,
      <<"De rien !">>>>,
    <<<<"m","e","r","c","i"," ","b","e","a","u","c","o","u","p">>,
      <<"Avec plaisir !">>>>,
    <<<<"m","e","r","c","i"," ","b","i","e","n">>,
      <<"Je vous en prie !">>>>,
    <<<<"b","o","n","j","o","u","r">>,
      <<"Bonjour ! Comment puis-je vous aider ?">>>>,
    <<<<"b","o","n","s","o","i","r">>,
      <<"Bonsoir ! Comment puis-je vous aider ?">>>>,
    <<<<"s","a","l","u","t">>,
      <<"Salut ! Comment puis-je vous aider ?">>>>,
    <<<<"c","o","u","c","o","u">>,
      <<"Coucou ! Comment puis-je vous aider ?">>>>,
    <<<<"a","u"," ","r","e","v","o","i","r">>,
      <<"Au revoir !">>>>,
    <<<<"à"," ","b","i","e","n","t","ô","t">>,
      <<"À bientôt !">>>>,
    <<<<"s","u","p","e","r">>,
      <<"Ravi de l'entendre !">>>>,
    <<<<"t","o","p">>,
      <<"Parfait !">>>>,
    <<<<"b","i","e","n">>,
      <<"Parfait !">>>>,
    <<<<"g","é","n","i","a","l">>,
      <<"Super !">>>>,
    <<<<"e","x","c","e","l","l","e","n","t">>,
      <<"Parfait !">>>>,
    <<<<"o","k">>,
      <<"Très bien !">>>>,
    <<<<"p","a","r","f","a","i","t">>,
      <<"Parfait !">>>>,
    <<<<"c","o","o","l">>,
      <<"Cool !">>>>
  >>

greetings_en ==
  <<
    <<<<"t","h","a","n","k","s">>,
      <<"You're welcome!">>>>,
    <<<<"t","h","a","n","k"," ","y","o","u">>,
      <<"You're welcome!">>>>,
    <<<<"t","h","a","n","k"," ","y","o","u"," ","v","e","r","y"," ","m","u","c","h">>,
      <<"You're welcome!">>>>,
    <<<<"h","e","l","l","o">>,
      <<"Hello! How can I help you?">>>>,
    <<<<"h","i">>,
      <<"Hi! How can I help you?">>>>,
    <<<<"h","e","y">>,
      <<"Hey! How can I help you?">>>>,
    <<<<"g","o","o","d"," ","m","o","r","n","i","n","g">>,
      <<"Good morning! How can I help you?">>>>,
    <<<<"g","o","o","d"," ","a","f","t","e","r","n","o","o","n">>,
      <<"Good afternoon! How can I help you?">>>>,
    <<<<"g","o","o","d"," ","e","v","e","n","i","n","g">>,
      <<"Good evening! How can I help you?">>>>,
    <<<<"b","y","e">>,
      <<"Goodbye!">>>>,
    <<<<"g","o","o","d","b","y","e">>,
      <<"Goodbye!">>>>,
    <<<<"s","e","e"," ","y","o","u">>,
      <<"See you soon!">>>>,
    <<<<"s","u","p","e","r">>,
      <<"Glad to hear it!">>>>,
    <<<<"t","o","p">>,
      <<"Perfect!">>>>,
    <<<<"g","o","o","d">>,
      <<"Great!">>>>,
    <<<<"a","w","e","s","o","m","e">>,
      <<"Awesome!">>>>,
    <<<<"g","r","e","a","t">>,
      <<"Great!">>>>,
    <<<<"o","k">>,
      <<"Alright!">>>>,
    <<<<"p","e","r","f","e","c","t">>,
      <<"Perfect!">>>>,
    <<<<"c","o","o","l">>,
      <<"Cool!">>>>
  >>

\* One table for both languages.
greetings_Both(language) == greetings_fr \o greetings_en

\* The two tables taken for each other.
greetings_Swapped(language) ==
  IF language = "fr" THEN greetings_en ELSE greetings_fr

\* greetings = greetings_fr if query.language == "fr" else greetings_en
greetings(language) == IF language = "fr" THEN greetings_fr ELSE greetings_en

\* question_lower in greetings
InDict(table, key) == \E i \in 1..Len(table) : table[i][1] = key

\* greetings[question_lower]
GetItem(table, key) == table[CHOOSE i \in 1..Len(table) : table[i][1] = key][2]

\* ------------------------------------------------------------------ files
\* A file on disk: absent ("missing"), truncated by open(.., "w") and not yet
\* written ("empty"), holding bytes that json.load rejects ("garbage"), or
\* holding the JSON document doc ("json").
Missing == [state |-> "missing", doc |-> <<>>]
Empty == [state |-> "empty", doc |-> <<>>]
Garbage == [state |-> "garbage", doc |-> <<>>]
Json(doc) == [state |-> "json", doc |-> doc]

\* The dict {} and the list [] (TLC identifies the empty function and <<>>).
EmptyDict == <<>>
EmptyList == <<>>

\* What open(path, "r") and json.load raise on the file.
Raises(file) ==
  CASE file.state = "missing" -> "FileNotFoundError"
    [] file.state \in {"empty", "garbage"} -> "JSONDecodeError"
    [] OTHER -> "no"

\* except FileNotFoundError alone.
Caught_OnlyMissing == {"FileNotFoundError"}

\* except (FileNotFoundError, json.JSONDecodeError)
Caught == {"FileNotFoundError", "JSONDecodeError"}

\* read_history() raises, and ask with it.
read_history_raises(file) == Raises(file) \notin Caught \cup {"no"}

\* read_history(): the document, or {} in the except branch.
read_history(file) == IF Raises(file) = "no" THEN file.doc ELSE EmptyDict

\* read_asks(): the document, or [] in its except branch (the same two
\* exceptions).
read_asks(file) == IF Raises(file) = "no" THEN file.doc ELSE EmptyList

\* open(path, "w"): creates or truncates the file.
OpenW(file) == Empty

\* json.dump(doc, f) and the close of the with block, by a writer whose
\* open(.., "w") came earlier.  On a file still empty the document is
\* written from offset 0.  When another writer has written since, the bytes
\* are laid over the other writer's bytes: the result is the document when
\* it is at least as long, and a document followed by a stale tail, which
\* json.load rejects, when it is shorter.
DumpOutcomes(file, doc) ==
  IF file.state = "empty" THEN {Json(doc)} ELSE {Json(doc), Garbage}

\* history.get(session_id, [])
Get(history, session_id) ==
  IF session_id \in DOMAIN history THEN history[session_id] ELSE EmptyList

\* history[session_id] = session_history
SetItem(history, session_id, session_history) ==
  [k \in DOMAIN history \cup {session_id} |->
     IF k = session_id THEN session_history ELSE history[k]]

\* list[:n]
Last_FromStart(list, n) == IF Len(list) <= n THEN list ELSE SubSeq(list, 1, n)

\* list[-n:]
Last(list, n) ==
  IF Len(list) <= n THEN list ELSE SubSeq(list, Len(list) - n + 1, Len(list))

\* --------------------------------------------------------------- the request
None == "None"
Languages == {"en", "fr"}

\* Any language tag let through.
Validate_Any(q) == TRUE

\* class Query: language is Literal["en", "fr"]; question is any str.
Validate(q) == q.language \in Languages

\* SYSTEM_PROMPTS[query.language].format(data=...)
system_prompt(language) == <<"SYSTEM_PROMPTS", language>>

Turn(role, content) == [role |-> role, content |-> content]

\* The number of history messages sent to the backend.
ContextTurns == 10

\* Step 3 of ask: the message list for the API.
BuildMessages(language, session_history, question) ==
  <<Turn("system", system_prompt(language))>>
    \o Last(session_history, ContextTurns)
    \o <<Turn("user", question)>>

\* The append of the answer left out.
AppendTurns_UserOnly(session_history, question, answer) ==
  Append(session_history, Turn("user", question))

\* Step 5 of ask: the two appends to session_history.
AppendTurns(session_history, question, answer) ==
  Append(Append(session_history, Turn("user", question)),
         Turn("assistant", answer))

\* str(uuid.uuid4()): the n-th identifier drawn.
Uuid(n) == "u" \o ToString(n)

\* new_ask of ask.
NewAsk(id, question, date) == [id |-> id, question |-> question, date |-> date]

\* ------------------------------------------------------------------ inputs
Workers == 1..NumWorkers

Q_Ok == <<"O", "k", "!">>
Q_Hi == <<" ", "h", "i">>
Q_Cv == <<"c", "v", "?">>
Answers == {<<"A1">>}

\* The requests received: two greetings (one needs lower and rstrip, one
\* strip), a greeting of the other language's table, a plain question on a
\* session the caller names and on one the service names, a language tag
\* outside Literal["en", "fr"] (with a plain question and with a greeting),
\* the empty question, and the empty session id.
Queries ==
  { [question |-> Q_Ok, language |-> "fr", session_id |-> None],
    [question |-> Q_Hi, language |-> "en", session_id |-> "s1"],
    [question |-> Q_Hi, language |-> "fr", session_id |-> "s1"],
    [question |-> Q_Cv, language |-> "en", session_id |-> "s1"],
    [question |-> Q_Cv, language |-> "fr", session_id |-> None],
    [question |-> Q_Cv, language |-> "de", session_id |-> "s1"],
    [question |-> Q_Ok, language |-> "de", session_id |-> None],
    [question |-> <<>>, language |-> "en", session_id |-> "s1"],
    [question |-> Q_Cv, language |-> "en", session_id |-> ""] }

\* ------------------------------------------------------------------- state
VARIABLES
  histFile,   \* data/conversation_history.json
  asksFile,   \* data/asks.json
  pc,         \* per worker: where its current request stands
  query,      \* per worker: the request being handled
  local,      \* per worker: the local variables of ask
  result,     \* per worker: the response of the request
  obs,        \* per worker: what the request has seen and done so far
  nreq,       \* requests received so far (also the clock of date)
  nuuid,      \* uuid4 values drawn so far
  deleted     \* the ask ids whose delete has been acknowledged

vars ==
  <<histFile, asksFile, pc, query, local, result, obs, nreq, nuuid, deleted>>

NoQuery == [question |-> <<>>, language |-> "fr", session_id |-> None]
NoLocal ==
  [session_id |-> None, history |-> EmptyDict, session_history |-> EmptyList,
   messages |-> <<>>, answer |-> <<>>, asks |-> EmptyList,
   ask_id |-> None, ask |-> <<>>]
NoResult == [status |-> 0, answer |-> <<>>, session_id |-> None]

\* calls: backend calls made; hist_writes, asks_writes: opens for writing;
\* hist0, asks0: the two collections when the request arrived; solo: no
\* other request was in flight during this one; error: the exception that
\* ended or hit the request; read_state: the state of the history file when
\* it was read; read: the session's turns as read; pre: the collection just
\* before the request's open(.., "w"); stale: the workers that had read the
\* history and not yet written it when this request opened it for writing;
\* kind: the endpoint; nuuid0: the uuid4 values drawn before the request
\* arrived; deleted0: the ask ids whose delete was acknowledged before it
\* arrived.
NoObs ==
  [calls |-> 0, hist_writes |-> 0, asks_writes |-> 0,
   hist0 |-> EmptyDict, asks0 |-> EmptyList, solo |-> TRUE,
   error |-> "no", read_state |-> "unread", read |-> EmptyList,
   pre |-> EmptyDict, stale |-> {}, kind |-> "none", nuuid0 |-> 0,
   deleted0 |-> {}]

Init ==
  /\ histFile \in {Missing, Garbage}
  /\ asksFile = Missing
  /\ pc = [w \in Workers |-> "idle"]
  /\ query = [w \in Workers |-> NoQuery]
  /\ local = [w \in Workers |-> NoLocal]
  /\ result = [w \in Workers |-> NoResult]
  /\ obs = [w \in Workers |-> NoObs]
  /\ nreq = 0
  /\ nuuid = 0
  /\ deleted = {}

\* A step of worker w falls inside the request of every other busy worker.
Interleave(w) ==
  [v \in Workers |->
     IF v # w /\ pc[v] # "idle" THEN [obs[v] EXCEPT !.solo = FALSE] ELSE obs[v]]

\* ------------------------------------------------------------------ /ask
\* if question_lower in greetings
IsGreeting(q) == InDict(greetings(q.language), question_lower(q.question))

\* query.session_id or str(uuid.uuid4())
\* (None and the empty string are the falsy values of Optional[str].)
DrawsSessionId(q) == q.session_id \in {None, ""}

\* One identifier handed out to every caller that names none.
SessionIdOf_Constant(q, n) ==
  IF DrawsSessionId(q) THEN Uuid(1) ELSE q.session_id

SessionIdOf(q, n) == IF DrawsSessionId(q) THEN Uuid(n + 1) ELSE q.session_id

\* The request arrives at an idle worker. A body that fails the validation of
\* Query is answered 422 before ask runs. Otherwise ask runs up to its return
\* of the canned reply, or up to the read of the history.
AskStart(w, q) ==
  /\ pc[w] = "idle"
  /\ nreq < MaxRequests
  /\ nreq' = nreq + 1
  /\ query' = [query EXCEPT ![w] = q]
  /\ obs' = [v \in Workers |->
       IF v = w
       THEN [NoObs EXCEPT !.kind = "ask",
                          !.nuuid0 = nuuid,
                          !.deleted0 = deleted,
                          !.hist0 = read_history(histFile),
                          !.asks0 = read_asks(asksFile),
                          !.solo = \A u \in Workers \ {w} : pc[u] = "idle",
                          !.error = IF Validate(q) THEN "no" ELSE "validation"]
       ELSE [Interleave(w)[v] EXCEPT !.stale = @ \ {w}]]
  /\ IF ~Validate(q)
     THEN /\ pc' = [pc EXCEPT ![w] = "failed"]
          /\ result' = [result EXCEPT ![w] = [NoResult EXCEPT !.status = 422]]
          /\ UNCHANGED <<local, nuuid>>
     ELSE /\ nuuid' = IF DrawsSessionId(q) THEN nuuid + 1 ELSE nuuid
          /\ local' = [local EXCEPT ![w] =
                         [NoLocal EXCEPT !.session_id = SessionIdOf(q, nuuid)]]
          /\ IF IsGreeting(q)
             THEN /\ pc' = [pc EXCEPT ![w] = "done"]
                  /\ result' = [result EXCEPT ![w] =
                       [status |-> 200,
                        answer |-> GetItem(greetings(q.language),
                                           question_lower(q.question)),
                        session_id |-> SessionIdOf(q, nuuid)]]
             ELSE /\ pc' = [pc EXCEPT ![w] = "read_history"]
                  /\ UNCHANGED result
  /\ UNCHANGED <<histFile, asksFile, deleted>>

\* Steps 1 to 3: history = read_history(), the session's list, the messages.
ReadHistory(w) ==
  /\ pc[w] = "read_history"
  /\ IF read_history_raises(histFile)
     THEN /\ pc' = [pc EXCEPT ![w] = "failed"]
          /\ result' = [result EXCEPT ![w] = [NoResult EXCEPT !.status = 500]]
          /\ obs' = [Interleave(w) EXCEPT
               ![w] = [@ EXCEPT !.error = "read", !.read_state = histFile.state]]
          /\ UNCHANGED local
     ELSE /\ LET history == read_history(histFile)
                 session_history == Get(history, local[w].session_id)
             IN /\ local' = [local EXCEPT ![w] =
                     [@ EXCEPT !.history = history,
                               !.session_history = session_history,
                               !.messages = BuildMessages(query[w].language,
                                              session_history, query[w].question)]]
                /\ obs' = [Interleave(w) EXCEPT
                     ![w] = [@ EXCEPT !.read_state = histFile.state,
                                      !.read = session_history]]
          /\ pc' = [pc EXCEPT ![w] = "call_backend"]
          /\ UNCHANGED result
  /\ UNCHANGED <<histFile, asksFile, query, nreq, nuuid, deleted>>

\* The call made again after it raised.
AfterBackendError_Retry == "call_backend"

\* The exception swallowed: ask goes on to record the turn.
AfterBackendError_Swallowed == "write_history"

\* Where ask goes on when client.chat.completions.create raises: the
\* exception is not caught, the request ends with a server error.
AfterBackendError == "failed"

\* Step 4, the call returns: answer = response.choices[0].message.content
BackendReturn(w, answer) ==
  /\ pc[w] = "call_backend"
  /\ local' = [local EXCEPT ![w] = [@ EXCEPT !.answer = answer]]
  /\ pc' = [pc EXCEPT ![w] = "write_history"]
  /\ obs' = [Interleave(w) EXCEPT ![w] = [@ EXCEPT !.calls = @ + 1]]
  /\ UNCHANGED <<histFile, asksFile, query, result, nreq, nuuid, deleted>>

\* Step 4, the call raises.
BackendRaise(w) ==
  /\ pc[w] = "call_backend"
  /\ pc' = [pc EXCEPT ![w] = AfterBackendError]
  /\ result' = [result EXCEPT ![w] =
       IF AfterBackendError = "failed"
       THEN [NoResult EXCEPT !.status = 500] ELSE @]
  /\ obs' = [Interleave(w) EXCEPT
       ![w] = [@ EXCEPT !.calls = @ + 1, !.error = "backend"]]
  /\ UNCHANGED <<histFile, asksFile, query, local, nreq, nuuid, deleted>>

\* Only the session at hand handed to write_history.
HistoryToWrite_OnlySession(w) ==
  SetItem(EmptyDict, local[w].session_id,
          AppendTurns(local[w].session_history, query[w].question,
                      local[w].answer))

\* The history read again right before it is written.
HistoryToWrite_Reread(w) ==
  SetItem(read_history(histFile), local[w].session_id,
          AppendTurns(Get(read_history(histFile), local[w].session_id),
                      query[w].question, local[w].answer))

\* The history ask hands to write_history: the collection it read, with the
\* session's list as read plus the two new turns.
HistoryToWrite(w) ==
  SetItem(local[w].history, local[w].session_id,
          AppendTurns(local[w].session_history, query[w].question,
                      local[w].answer))

\* Step 5: the two appends, history[session_id] = session_history, and the
\* open(.., "w") of write_history.
WriteHistoryOpen(w) ==
  /\ pc[w] = "write_history"
  /\ local' = [local EXCEPT ![w] =
       [@ EXCEPT !.history = HistoryToWrite(w),
                 !.session_history = HistoryToWrite(w)[local[w].session_id]]]
  /\ histFile' = OpenW(histFile)
  /\ pc' = [pc EXCEPT ![w] = "dump_history"]
  /\ obs' = [Interleave(w) EXCEPT
       ![w] = [@ EXCEPT !.hist_writes = @ + 1,
                        !.pre = read_history(histFile),
                        !.stale = {v \in Workers \ {w} :
                                     pc[v] \in {"call_backend", "write_history"}}]]
  /\ UNCHANGED <<asksFile, query, result, nreq, nuuid, deleted>>

\* The json.dump of write_history and the close of its file.
WriteHistoryDump(w) ==
  /\ pc[w] = "dump_history"
  /\ histFile' \in DumpOutcomes(histFile, local[w].history)
  /\ pc' = [pc EXCEPT ![w] = "read_asks"]
  /\ obs' = Interleave(w)
  /\ UNCHANGED <<asksFile, query, local, result, nreq, nuuid, deleted>>

\* asks = read_asks(); asks.append(new_ask)
ReadAsks(w) ==
  /\ pc[w] = "read_asks"
  /\ nuuid' = nuuid + 1
  /\ local' = [local EXCEPT ![w] =
       [@ EXCEPT !.asks = Append(read_asks(asksFile),
                                 NewAsk(Uuid(nuuid + 1), query[w].question, nreq))]]
  /\ pc' = [pc EXCEPT ![w] = "write_asks"]
  /\ obs' = Interleave(w)
  /\ UNCHANGED <<histFile, asksFile, query, result, nreq, deleted>>

\* The open(.., "w") of write_asks.
WriteAsksOpen(w) ==
  /\ pc[w] = "write_asks"
  /\ asksFile' = OpenW(asksFile)
  /\ pc' = [pc EXCEPT ![w] = "dump_asks"]
  /\ obs' = [Interleave(w) EXCEPT ![w] = [@ EXCEPT !.asks_writes = @ + 1]]
  /\ UNCHANGED <<histFile, query, local, result, nreq, nuuid, deleted>>

\* return {"answer": answer, "session_id": session_id}
Response(w) ==
  [status |-> 200, answer |-> local[w].answer, session_id |-> local[w].session_id]

\* What the caller gets when write_asks raises: nothing in ask catches the
\* exception, the request ends with a server error.
AfterAsksError(w) == [NoResult EXCEPT !.status = 500]

\* The open of write_asks raises OSError (the file cannot be written).
WriteAsksRaise(w) ==
  /\ pc[w] = "write_asks"
  /\ pc' = [pc EXCEPT ![w] = IF AfterAsksError(w).status = 200 THEN "done" ELSE "failed"]
  /\ result' = [result EXCEPT ![w] = AfterAsksError(w)]
  /\ obs' = [Interleave(w) EXCEPT ![w] = [@ EXCEPT !.error = "asks"]]
  /\ UNCHANGED <<histFile, asksFile, query, local, nreq, nuuid, deleted>>

\* The json.dump of write_asks, the close of its file, and the return.
WriteAsksDump(w) ==
  /\ pc[w] = "dump_asks"
  /\ asksFile' \in DumpOutcomes(asksFile, local[w].asks)
  /\ pc' = [pc EXCEPT ![w] = "done"]
  /\ result' = [result EXCEPT ![w] = Response(w)]
  /\ obs' = Interleave(w)
  /\ UNCHANGED <<histFile, query, local, nreq, nuuid, deleted>>

\* The response is sent; the worker takes the next request.
Finish(w) ==
  /\ pc[w] \in {"done", "failed"}
  /\ pc' = [pc EXCEPT ![w] = "idle"]
  /\ query' = [query EXCEPT ![w] = NoQuery]
  /\ local' = [local EXCEPT ![w] = NoLocal]
  /\ result' = [result EXCEPT ![w] = NoResult]
  /\ obs' = [Interleave(w) EXCEPT ![w] = NoObs]
  /\ UNCHANGED <<histFile, asksFile, nreq, nuuid, deleted>>

\* ------------------------------------------------------- /asks/{ask_id}
\* The ids asked for: the first two uuid4 values (an ask's id when its
\* session was named by the caller, a session's id otherwise).
AskIds == {Uuid(1), Uuid(2)}

\* for ask in asks: if ask["id"] == ask_id: the first such record, as a list
\* of one, or the empty list.
Find(asks, ask_id) ==
  IF \E i \in 1..Len(asks) : asks[i].id = ask_id
  THEN <<asks[CHOOSE i \in 1..Len(asks) :
                 /\ asks[i].id = ask_id
                 /\ \A j \in 1..(i - 1) : asks[j].id # ask_id]>>
  ELSE <<>>

\* The removal left out.
Remove_Nothing(asks, ask) == asks

\* asks.remove(ask): the list without its first element equal to ask.
Remove(asks, ask) ==
  LET i == CHOOSE k \in 1..Len(asks) :
             asks[k] = ask /\ \A j \in 1..(k - 1) : asks[j] # ask
  IN SubSeq(asks, 1, i - 1) \o SubSeq(asks, i + 1, Len(asks))

\* raise HTTPException(status_code=404, detail="Ask not found")
NotFound == [NoResult EXCEPT !.status = 404]

\* What a request of another endpoint records when it arrives at worker w.
Arrive(w, kind) ==
  [v \in Workers |->
     IF v = w
     THEN [NoObs EXCEPT !.kind = kind,
                        !.nuuid0 = nuuid,
                        !.deleted0 = deleted,
                        !.hist0 = read_history(histFile),
                        !.asks0 = read_asks(asksFile),
                        !.solo = \A u \in Workers \ {w} : pc[u] = "idle"]
     ELSE [Interleave(w)[v] EXCEPT !.stale = @ \ {w}]]

\* get_ask: the read of the log and the loop, up to the return or the 404.
GetAsk(w, ask_id) ==
  /\ pc[w] = "idle"
  /\ nreq < MaxRequests
  /\ nreq' = nreq + 1
  /\ LET asks == read_asks(asksFile)
         ask == Find(asks, ask_id)
     IN /\ local' = [local EXCEPT ![w] =
             [NoLocal EXCEPT !.ask_id = ask_id, !.asks = asks, !.ask = ask]]
        /\ pc' = [pc EXCEPT ![w] = IF ask = <<>> THEN "failed" ELSE "done"]
        /\ result' = [result EXCEPT ![w] =
             IF ask = <<>> THEN NotFound ELSE [NoResult EXCEPT !.status = 200]]
  /\ obs' = Arrive(w, "get")
  /\ UNCHANGED <<histFile, asksFile, query, nuuid, deleted>>

\* delete_ask: the read of the log and the loop, up to the 404 or to
\* asks.remove(ask_to_delete).
DeleteStart(w, ask_id) ==
  /\ pc[w] = "idle"
  /\ nreq < MaxRequests
  /\ nreq' = nreq + 1
  /\ LET asks == read_asks(asksFile)
         ask_to_delete == Find(asks, ask_id)
     IN IF ask_to_delete = <<>>
        THEN /\ local' = [local EXCEPT ![w] =
                  [NoLocal EXCEPT !.ask_id = ask_id, !.asks = asks]]
             /\ pc' = [pc EXCEPT ![w] = "failed"]
             /\ result' = [result EXCEPT ![w] = NotFound]
        ELSE /\ local' = [local EXCEPT ![w] =
                  [NoLocal EXCEPT !.ask_id = ask_id,
                                  !.ask = ask_to_delete,
                                  !.asks = Remove(asks, ask_to_delete[1])]]
             /\ pc' = [pc EXCEPT ![w] = "delete_write"]
             /\ UNCHANGED result
  /\ obs' = Arrive(w, "delete")
  /\ UNCHANGED <<histFile, asksFile, query, nuuid, deleted>>

\* The open(.., "w") of write_asks, called by delete_ask.
DeleteOpen(w) ==
  /\ pc[w] = "delete_write"
  /\ asksFile' = OpenW(asksFile)
  /\ pc' = [pc EXCEPT ![w] = "delete_dump"]
  /\ obs' = [Interleave(w) EXCEPT ![w] = [@ EXCEPT !.asks_writes = @ + 1]]
  /\ UNCHANGED <<histFile, query, local, result, nreq, nuuid, deleted>>

\* The json.dump of write_asks, the close of its file, and the return of
\* {"message": "Ask deleted successfully"}.
DeleteDump(w) ==
  /\ pc[w] = "delete_dump"
  /\ asksFile' \in DumpOutcomes(asksFile, local[w].asks)
  /\ pc' = [pc EXCEPT ![w] = "done"]
  /\ result' = [result EXCEPT ![w] = [NoResult EXCEPT !.status = 200]]
  /\ deleted' = deleted \cup {local[w].ask_id}
  /\ obs' = Interleave(w)
  /\ UNCHANGED <<histFile, query, local, nreq, nuuid>>

Next ==
  \/ \E w \in Workers, q \in Queries : AskStart(w, q)
  \/ \E w \in Workers, ask_id \in AskIds : GetAsk(w, ask_id)
  \/ \E w \in Workers, ask_id \in AskIds : DeleteStart(w, ask_id)
  \/ \E w \in Workers : DeleteOpen(w)
  \/ \E w \in Workers : DeleteDump(w)
  \/ \E w \in Workers : ReadHistory(w)
  \/ \E w \in Workers, answer \in Answers : BackendReturn(w, answer)
  \/ \E w \in Workers : BackendRaise(w)
  \/ \E w \in Workers : WriteHistoryOpen(w)
  \/ \E w \in Workers : WriteHistoryDump(w)
  \/ \E w \in Workers : ReadAsks(w)
  \/ \E w \in Workers : WriteAsksOpen(w)
  \/ \E w \in Workers : WriteAsksRaise(w)
  \/ \E w \in Workers : WriteAsksDump(w)
  \/ \E w \in Workers : Finish(w)

Spec == Init /\ [][Next]_vars

\* ------------------------------------------------------ a log with a record
\* The service after one request /ask {question: "cv?", language: "en",
\* session_id: "s1"} has been answered: one session, one ask record. (nreq
\* counts the requests from here on.)
InitAsks ==
  /\ histFile = Json([sid \in {"s1"} |-> AppendTurns(<<>>, Q_Cv, <<"A1">>)])
  /\ asksFile = Json(<<NewAsk(Uuid(1), Q_Cv, 0)>>)
  /\ pc = [w \in Workers |-> "idle"]
  /\ query = [w \in Workers |-> NoQuery]
  /\ local = [w \in Workers |-> NoLocal]
  /\ result = [w \in Workers |-> NoResult]
  /\ obs = [w \in Workers |-> NoObs]
  /\ nreq = 0
  /\ nuuid = 1
  /\ deleted = {}

SpecAsks == InitAsks /\ [][Next]_vars

\* One worker process: the requests are handled one after the other.
NextSerial ==
  \/ \E q \in Queries : AskStart(1, q)
  \/ \E ask_id \in AskIds : GetAsk(1, ask_id)
  \/ \E ask_id \in AskIds : DeleteStart(1, ask_id)
  \/ DeleteOpen(1)
  \/ DeleteDump(1)
  \/ ReadHistory(1)
  \/ \E answer \in Answers : BackendReturn(1, answer)
  \/ BackendRaise(1)
  \/ WriteHistoryOpen(1)
  \/ WriteHistoryDump(1)
  \/ ReadAsks(1)
  \/ WriteAsksOpen(1)
  \/ WriteAsksRaise(1)
  \/ WriteAsksDump(1)
  \/ Finish(1)

SpecSerial == InitAsks /\ [][NextSerial]_vars

\* ------------------------------------------------- every greeting phrase
\* A request for every key of the two tables, as written in the table.
TableQueries ==
  {[question |-> greetings_fr[i][1], language |-> "fr", session_id |-> None] :
     i \in 1..Len(greetings_fr)}
  \cup
  {[question |-> greetings_en[i][1], language |-> "en", session_id |-> "s1"] :
     i \in 1..Len(greetings_en)}

\* Near misses: a greeting followed by a space and "!" (the space is what
\* rstrip leaves at the end), and a question that contains a greeting.
Q_MerciSpace == <<"M", "e", "r", "c", "i", " ", "!">>
Q_HiCv == <<"h", "i", " ", "c", "v">>
NearMissQueries ==
  { [question |-> Q_MerciSpace, language |-> "fr", session_id |-> "s1"],
    [question |-> Q_HiCv, language |-> "en", session_id |-> "s1"] }

\* The service receiving the requests of Queries, those of TableQueries and
\* those of NearMissQueries.
NextGreeting ==
  \/ \E w \in Workers, q \in TableQueries : AskStart(w, q)
  \/ \E w \in Workers, q \in NearMissQueries : AskStart(w, q)
  \/ Next

SpecGreeting == Init /\ [][NextGreeting]_vars

\* ------------------------------------------------------ stored histories
\* One request on a session whose stored history is any sequence of up to
\* MaxHistory turns, paired or not.
StoredTurns == {Turn("user", <<"q">>), Turn("assistant", <<"a">>)}
Histories == UNION {[1..n -> StoredTurns] : n \in 0..MaxHistory}
WindowQuery == [question |-> Q_Cv, language |-> "en", session_id |-> "s1"]

InitWindow ==
  /\ histFile \in {Json([sid \in {"s1"} |-> h]) : h \in Histories}
  /\ asksFile = Missing
  /\ pc = [w \in Workers |-> "idle"]
  /\ query = [w \in Workers |-> NoQuery]
  /\ local = [w \in Workers |-> NoLocal]
  /\ result = [w \in Workers |-> NoResult]
  /\ obs = [w \in Workers |-> NoObs]
  /\ nreq = MaxRequests - 1
  /\ nuuid = 0
  /\ deleted = {}

NextWindow ==
  \/ AskStart(1, WindowQuery)
  \/ ReadHistory(1)
  \/ \E answer \in Answers : BackendReturn(1, answer)
  \/ BackendRaise(1)
  \/ WriteHistoryOpen(1)
  \/ WriteHistoryDump(1)
  \/ ReadAsks(1)
  \/ WriteAsksOpen(1)
  \/ WriteAsksRaise(1)
  \/ WriteAsksDump(1)
  \/ Finish(1)

SpecWindow == InitWindow /\ [][NextWindow]_vars

\* ---------------------------------------------------------- the claims
\* What a read of the two files returns in this state.
Persisted == read_history(histFile)
Logged == read_asks(asksFile)

IsPrefix(s, t) == Len(s) <= Len(t) /\ SubSeq(t, 1, Len(s)) = s

\* The turn pair a request appends.
TurnPair(w) ==
  <<Turn("user", query[w].question), Turn("assistant", local[w].answer)>>

\* The session's turns in a collection, [] when it has none.
TurnsOf(collection, session_id) ==
  IF session_id \in DOMAIN collection THEN collection[session_id] ELSE <<>>

\* A turn sequence made of (user, assistant) pairs.
PairsOnly(turns) ==
  /\ Len(turns) % 2 = 0
  /\ \A i \in 1..Len(turns) :
       turns[i].role = IF i % 2 = 1 THEN "user" ELSE "assistant"

\* The request of w is a successful non-greeting /ask.
Succeeded(w) ==
  pc[w] = "done" /\ result[w].status = 200 /\ obs[w].hist_writes = 1

\* C1: a request whose backend call failed ends in a server error and has
\* opened neither file for writing; when no other request ran during it, the
\* session collection and the ask log are what they were when it arrived.
C1_BackendFailureRecordsNothing ==
  \A w \in Workers :
    obs[w].error = "backend" =>
      /\ pc[w] = "failed"
      /\ result[w].status = 500
      /\ obs[w].hist_writes = 0
      /\ obs[w].asks_writes = 0
      /\ obs[w].solo => (Persisted = obs[w].hist0 /\ Logged = obs[w].asks0)

\* A backend failure of a request that ran alone on a non-empty collection.
C1_Witness ==
  \E w \in Workers :
    obs[w].error = "backend" /\ obs[w].solo /\ DOMAIN obs[w].hist0 # {}

\* C2: in every state, every session of the persisted collection is a
\* sequence of (user turn, assistant turn) pairs.
C2_NoHalfWrittenPair ==
  \A sid \in DOMAIN Persisted : PairsOnly(Persisted[sid])

\* A persisted session of two pairs.
C2_Witness == \E sid \in DOMAIN Persisted : Len(Persisted[sid]) >= 4

\* The reply the table of language L maps the phrase to, when it has it.
TableHas(L, phrase) ==
  LET table == IF L = "fr" THEN greetings_fr ELSE greetings_en
  IN \E i \in 1..Len(table) : table[i][1] = phrase
TableReply(L, phrase) ==
  LET table == IF L = "fr" THEN greetings_fr ELSE greetings_en
  IN table[CHOOSE i \in 1..Len(table) : table[i][1] = phrase][2]

\* C3: a request whose question is a phrase of its language's greeting table
\* returns the mapped reply at once: no backend call, no read of the
\* history, no open of either file for writing; when no other request ran
\* during it, the session collection and the ask log are as they were.
C3_GreetingShortCircuit ==
  \A w \in Workers :
    (/\ pc[w] # "idle"
     /\ query[w].language \in {"fr", "en"}
     /\ TableHas(query[w].language, query[w].question)) =>
      /\ pc[w] = "done"
      /\ result[w].status = 200
      /\ result[w].answer = TableReply(query[w].language, query[w].question)
      /\ obs[w].calls = 0
      /\ obs[w].read_state = "unread"
      /\ obs[w].hist_writes = 0
      /\ obs[w].asks_writes = 0
      /\ obs[w].solo => (Persisted = obs[w].hist0 /\ Logged = obs[w].asks0)

\* "merci beaucoup" asked in French, alone, over a non-empty collection.
C3_Witness ==
  \E w \in Workers :
    /\ pc[w] = "done"
    /\ query[w].language = "fr"
    /\ query[w].question = greetings_fr[2][1]
    /\ result[w].answer = <<"Avec plaisir !">>
    /\ obs[w].solo
    /\ DOMAIN obs[w].hist0 # {}

\* C4: while a write_history is between its open and its dump, a read
\* returns the collection as it was before the write or the one being
\* written.
C4_WriteAtomicToReaders ==
  \A w \in Workers :
    pc[w] = "dump_history" => Persisted \in {obs[w].pre, local[w].history}

\* Two successful requests x and y on one session, both having read the same
\* turns before either opened the file for writing (x opened it first).
Raced(x, y) ==
  /\ x # y
  /\ Succeeded(x) /\ Succeeded(y)
  /\ local[x].session_id = local[y].session_id
  /\ y \in obs[x].stale
  /\ obs[x].read = obs[y].read

C6_AppendOnly ==
  [][\A sid \in DOMAIN Persisted :
       /\ sid \in DOMAIN Persisted'
       /\ IsPrefix(Persisted[sid], Persisted'[sid])]_vars

Min(a, b) == IF a <= b THEN a ELSE b

\* C7: for a history of H turns as read, the messages built are the system
\* instruction, the last min(H, 10) turns in their stored order, and the new
\* user turn: min(H, 10) + 2 messages, whatever the parity of H.
C7_ContextWindow ==
  \A w \in Workers :
    (obs[w].read_state # "unread" /\ obs[w].error # "read") =>
      LET h == obs[w].read
          H == Len(h)
          K == Min(H, 10)
          m == local[w].messages
      IN /\ obs[w].solo => h = TurnsOf(obs[w].hist0, local[w].session_id)
         /\ Len(m) = K + 2
         /\ m[1] = Turn("system", system_prompt(query[w].language))
         /\ m[K + 2] = Turn("user", query[w].question)
         /\ \A i \in 1..K : m[1 + i] = h[H - K + i]

\* Messages built from a stored history of 11 turns (odd, above 10) whose
\* first turn differs from its last.
C7_Witness ==
  \E w \in Workers :
    /\ pc[w] = "call_backend"
    /\ Len(obs[w].read) = 11
    /\ obs[w].read[1] # obs[w].read[11]
    /\ Len(local[w].messages) = 12

\* C8: a successful non-greeting request that ran alone leaves its session as
\* the previous turns plus its pair, every other session as it was, and the
\* ask log one record longer, the record carrying the question; with no
\* prior session the backend got 2 messages and the session holds 2 turns.
C8_SoloAskEffect ==
  \A w \in Workers :
    (Succeeded(w) /\ obs[w].solo) =>
      LET sid == local[w].session_id
          h0 == obs[w].hist0
          a0 == obs[w].asks0
      IN /\ histFile.state = "json"
         /\ DOMAIN Persisted = DOMAIN h0 \cup {sid}
         /\ Persisted[sid] = TurnsOf(h0, sid) \o TurnPair(w)
         /\ \A k \in DOMAIN h0 \ {sid} : Persisted[k] = h0[k]
         /\ asksFile.state = "json"
         /\ Len(Logged) = Len(a0) + 1
         /\ SubSeq(Logged, 1, Len(a0)) = a0
         /\ Logged[Len(Logged)].question = query[w].question
         /\ result[w].answer = local[w].answer
         /\ result[w].session_id = sid
         /\ obs[w].calls = 1
         /\ sid \notin DOMAIN h0 =>
              /\ Len(local[w].messages) = 2
              /\ local[w].messages[1].role = "system"
              /\ local[w].messages[2] = Turn("user", query[w].question)
              /\ Len(Persisted[sid]) = 2
              /\ Persisted[sid][1].role = "user"
              /\ Persisted[sid][2].role = "assistant"

\* A request that ran alone and opened a new session beside an existing one.
C8_Witness ==
  \E w \in Workers :
    /\ Succeeded(w) /\ obs[w].solo
    /\ DOMAIN obs[w].hist0 # {}
    /\ local[w].session_id \notin DOMAIN obs[w].hist0

\* C9: a request whose ask log write failed after its session append still
\* returns the successful response.
C9_AskLogFailureNonFatal ==
  \A w \in Workers :
    obs[w].error = "asks" => (pc[w] = "done" /\ result[w] = Response(w))

C11_EmptyQuestionRejected ==
  \A w \in Workers :
    (obs[w].kind = "ask" /\ query[w].question = <<>>) =>
      /\ pc[w] = "failed"
      /\ result[w].status = 422
      /\ obs[w].calls = 0
      /\ obs[w].hist_writes = 0
      /\ obs[w].asks_writes = 0

\* The ids of the records of an ask log.
IdsOf(asks) == {asks[i].id : i \in 1..Len(asks)}

\* C12: a successful /ask response carries a non-empty session_id. It is the
\* caller's when the caller named one (a non-empty string), and the turns
\* written are under it; otherwise it is a new one: none of the uuid4 values
\* drawn before the request arrived, no key of the session collection and no
\* id of the ask log at that time.
C12_SessionIdOfResponse ==
  \A w \in Workers :
    (obs[w].kind = "ask" /\ pc[w] = "done" /\ result[w].status = 200) =>
      LET sid == result[w].session_id
      IN /\ sid \notin {"", None}
         /\ sid = local[w].session_id
         /\ Succeeded(w) =>
              /\ sid \in DOMAIN local[w].history
              /\ local[w].history[sid] = obs[w].read \o TurnPair(w)
         /\ query[w].session_id \notin {None, ""} => sid = query[w].session_id
         /\ query[w].session_id \in {None, ""} =>
              /\ sid \notin {Uuid(i) : i \in 1..obs[w].nuuid0}
              /\ sid \notin DOMAIN obs[w].hist0
              /\ sid \notin IdsOf(obs[w].asks0)

\* A successful request that named no session (the empty string), after
\* other identifiers had been drawn and sessions stored.
C12_Witness ==
  \E w \in Workers :
    /\ Succeeded(w)
    /\ query[w].session_id = ""
    /\ obs[w].nuuid0 > 0
    /\ DOMAIN obs[w].hist0 # {}

\* C13: a get or a delete of an id that is not in the ask log fails with
\* 404 and does not open the log for writing (the log is as it was); a get
\* or a delete of an id whose delete was acknowledged before fails with 404.
C13_AbsentIdNotFound ==
  \A w \in Workers :
    obs[w].kind \in {"get", "delete"} =>
      /\ local[w].ask_id \notin IdsOf(obs[w].asks0) =>
           /\ pc[w] = "failed"
           /\ result[w].status = 404
           /\ obs[w].asks_writes = 0
           /\ obs[w].solo => Logged = obs[w].asks0
      /\ local[w].ask_id \in obs[w].deleted0 =>
           /\ pc[w] = "failed"
           /\ result[w].status = 404

\* A second delete of an id, after its first delete was acknowledged.
C13_Witness ==
  \E w \in Workers :
    /\ obs[w].kind = "delete"
    /\ local[w].ask_id \in obs[w].deleted0
    /\ result[w].status = 404

\* No request is under way and the ask log parses.
Quiet ==
  /\ \A w \in Workers : pc[w] \in {"idle", "done", "failed"}
  /\ asksFile.state = "json"

\* The record a successful /ask appended.
AppendedAsk(w) == local[w].asks[Len(local[w].asks)]

\* C17: an acknowledged delete that ran alone leaves the log as it was
\* without the one record, and the session collection as it was; and once
\* the requests under way have ended, whether they overlapped or not, no
\* deleted id is in the log and the record appended by a successful /ask
\* is in it unless it was deleted.
C17_DeleteRemovesExactlyOne ==
  /\ \A w \in Workers :
       (obs[w].kind = "delete" /\ pc[w] = "done" /\ obs[w].solo) =>
         /\ Logged = Remove(obs[w].asks0, local[w].ask[1])
         /\ Persisted = obs[w].hist0
  /\ Quiet =>
       /\ \A id \in deleted : id \notin IdsOf(Logged)
       /\ \A w \in Workers :
            Succeeded(w) =>
              AppendedAsk(w).id \in IdsOf(Logged) \cup deleted

\* C14: a request whose language tag is neither fr nor en ends with the
\* client error 422 and no reply: no backend call, no read of the history,
\* no open of either file for writing; when no other request ran during it,
\* the session collection and the ask log are as they were.
C14_UnsupportedLanguageRejected ==
  \A w \in Workers :
    (obs[w].kind = "ask" /\ query[w].language \notin {"fr", "en"}) =>
      /\ pc[w] = "failed"
      /\ result[w].status = 422
      /\ result[w].answer = <<>>
      /\ obs[w].calls = 0
      /\ obs[w].read_state = "unread"
      /\ obs[w].hist_writes = 0
      /\ obs[w].asks_writes = 0
      /\ obs[w].solo => (Persisted = obs[w].hist0 /\ Logged = obs[w].asks0)

\* "Ok!" asked in language de, alone, over a non-empty collection.
C14_Witness ==
  \E w \in Workers :
    /\ obs[w].kind = "ask"
    /\ query[w].language = "de"
    /\ query[w].question = Q_Ok
    /\ result[w].status = 422
    /\ obs[w].solo
    /\ DOMAIN obs[w].hist0 # {}

\* The session x wrote ends with the pair of x in the persisted collection.
PairPersisted(x) ==
  LET s == TurnsOf(Persisted, local[x].session_id)
  IN Len(s) >= 2 /\ SubSeq(s, Len(s) - 1, Len(s)) = TurnPair(x)

\* C15: when two successful requests on different sessions have both
\* written the history and the file holds the document of one of them, the
\* persisted collection holds the pair of each under its session.
C15_SessionsIndependent ==
  \A x, y \in Workers :
    (/\ x # y
     /\ Succeeded(x) /\ Succeeded(y)
     /\ local[x].session_id # local[y].session_id
     /\ histFile \in {Json(local[x].history), Json(local[y].history)})
      => (PairPersisted(x) /\ PairPersisted(y))

\* Worker w can take up a new request now.
CanStart(w) ==
  ENABLED (\/ \E q \in Queries : AskStart(w, q)
           \/ \E ask_id \in AskIds : GetAsk(w, ask_id)
           \/ \E ask_id \in AskIds : DeleteStart(w, ask_id))

\* C16: the backend call is a suspension point: while a request waits for
\* the backend, the event loop that runs it can start another request.
C16_BackendCallYields ==
  \A w \in Workers :
    (pc[w] = "call_backend" /\ nreq < MaxRequests) => CanStart(w)

\* The canned replies of both tables.
Replies ==
  {greetings_fr[i][2] : i \in 1..Len(greetings_fr)}
    \cup {greetings_en[i][2] : i \in 1..Len(greetings_en)}

\* C18: a request in a supported language whose normalized question is not
\* a key of that language's table gets no canned reply: it ends successfully
\* only through the history read, one backend call, the history write and
\* the ask log write, and returns the backend's answer.
C18_NearMissRunsPipeline ==
  \A w \in Workers :
    (/\ obs[w].kind = "ask"
     /\ query[w].language \in {"fr", "en"}
     /\ ~TableHas(query[w].language, question_lower(query[w].question))) =>
      /\ pc[w] # "read_history" => obs[w].read_state # "unread"
      /\ result[w].answer \notin Replies
      /\ pc[w] = "done" =>
           /\ obs[w].calls = 1
           /\ obs[w].hist_writes = 1
           /\ obs[w].asks_writes = 1
           /\ result[w].answer = local[w].answer
           /\ local[w].history[local[w].session_id] = obs[w].read \o TurnPair(w)
           /\ AppendedAsk(w).question = query[w].question

\* The three near misses answered by the backend: a greeting of the other
\* table only, a greeting before " !", and a question containing a greeting.
C18_Witness ==
  \E w \in Workers :
    /\ pc[w] = "done"
    /\ obs[w].calls = 1
    /\ \/ (query[w].question = Q_Hi /\ query[w].language = "fr")
       \/ query[w].question = Q_MerciSpace
       \/ query[w].question = Q_HiCv

\* C19: no request calls the backend more than once. A request answered
\* from a greeting table has made no call; a request past step 4 of ask
\* (writing the history or the log, returned after writing, or ended by the
\* backend's or the log's failure) has made exactly one; and a request whose
\* call failed has ended, with no further call.
C19_BackendAtMostOnce ==
  \A w \in Workers :
    /\ obs[w].calls <= 1
    /\ (/\ obs[w].kind = "ask"
        /\ query[w].language \in {"fr", "en"}
        /\ TableHas(query[w].language, question_lower(query[w].question)))
         => obs[w].calls = 0
    /\ (\/ pc[w] \in {"write_history", "dump_history", "read_asks",
                      "write_asks", "dump_asks"}
        \/ Succeeded(w)
        \/ obs[w].error \in {"backend", "asks"})
         => obs[w].calls = 1
    /\ obs[w].error = "backend" => pc[w] = "failed"

\* A request ended by the failure of its one backend call.
C19_Witness ==
  \E w \in Workers :
    obs[w].error = "backend" /\ obs[w].calls = 1 /\ pc[w] = "failed"

TypeOK == \A w \in Workers : pc[w] \in
  {"idle", "read_history", "call_backend", "write_history", "dump_history",
   "read_asks", "write_asks", "dump_asks", "delete_write", "delete_dump",
   "done", "failed"}
====
